---- MODULE Spec2Model ----
(***************************************************************************)
(* Control-flow model of the two training loops of the repository:         *)
(*   - ProGAN.train           (src/models/proGAN.py)                        *)
(*   - MultiscaleStyle.run    (src/neural_style/multiscale.py)              *)
(* Tensors and networks are abstracted: an image is the sequence of        *)
(* operations that produced it, an optimizer step is an event.  Numbers    *)
(* that the code computes in floating point (alpha) are exact rationals    *)
(* <<numerator, denominator>>.  Sample-grid logging and console output     *)
(* (proGAN.py 259, 269-300) write image files only and are not modelled.   *)
(***************************************************************************)
EXTENDS Integers, Sequences, FiniteSets, TLC

\* ------------------------------------------------------------------ bounds
MaxDepth == 4
MaxEpochs == 3
MaxBatches == 2
MaxCritic == 2
MaxSaveFreq == 3

\* fade_in values, as exact fractions <<p, q>> = p / q
FadeIns == { <<1, 2>>, <<1, 3>>, <<2, 3>>, <<1, 1>> }

\* Python's None for until_depth; a given depth k is <<k>>
None == << >>

VARIABLES
    \* ---- ProGAN object (constructor)
    ctor_depth,     \* the depth argument of ProGAN.__init__
    self_depth,     \* self.depth
    use_ema,        \* self.use_ema
    n_critic,       \* self.n_critic
    \* ---- ProGAN.train
    pc,             \* position of the call inside train
    args,           \* the arguments the caller passed to train
    start_epoch,    \* local start_epoch
    start_depth,    \* local start_depth
    stop_depth,     \* end of range(start_depth, ...)
    epoch,          \* global epoch counter
    total_epochs,
    depth,          \* loop variable of the depth loop
    current_res,
    total_batches,
    e,              \* loop variable of the within-depth epoch loop
    alpha,          \* fade-in coefficient <<num, den>>
    i,              \* batches of the current epoch that were taken
    critic,         \* iterations of the n_critic loop done in this batch
    batch_log,      \* optimizer events of the current batch, in order
    res_trace,      \* resolutions visited, in order
    epoch_log,      \* one record per epoch started
    saved,          \* save_networks(epoch) calls, in order
    finals,         \* number of save_networks("final") calls
    \* ---- MultiscaleStyle
    ms_pc,
    ms_cfg,         \* constructor arguments
    heap,           \* tensor objects: id -> image value
    init,           \* local init      (reference into heap)
    img,            \* local img       (reference into heap)
    init_image,     \* local init_image assigned on line 114 (reference)
    scale,
    current_size,
    num_calls,
    loopVal,
    files,          \* sizes for which maybe_save wrote an output file
    start_imgs,     \* value of img when the optimizer starts, per scale
    end_imgs        \* value of img when the optimizer ends, per scale

gan_vars == << ctor_depth, self_depth, use_ema, n_critic, pc, args, start_epoch,
               start_depth, stop_depth, epoch, total_epochs, depth, current_res,
               total_batches, e, alpha, i, critic, batch_log, res_trace,
               epoch_log, saved, finals >>

ms_vars == << ms_pc, ms_cfg, heap, init, img, init_image, scale, current_size,
              num_calls, loopVal, files, start_imgs, end_imgs >>

vars == << gan_vars, ms_vars >>

\* ------------------------------------------------------------ arithmetic
RECURSIVE Pow(_, _)
Pow(b, n) == IF n <= 0 THEN 1 ELSE b * Pow(b, n - 1)

RECURSIVE GCD(_, _)
GCD(a, b) == IF b = 0 THEN a ELSE GCD(b, a % b)

\* a fraction in lowest terms
Frac(n, d) == LET g == GCD(n, d) IN << n \div g, d \div g >>

\* math.ceil(a / b) and math.floor(a / b) for positive b
Ceil(a, b) == (a + b - 1) \div b

Floor(a, b) == a \div b

\* ProGAN.__init__, line 45
SelfDepth(d) == d - 1

\* train, line 245
CurrentResBad(dp) == Pow(2, dp + 1)

CurrentRes(dp) == Pow(2, dp + 2)

\* train, line 258: min(e / (num_epochs * fade_in), 1)
AlphaUnclamped(ee, ne, fi) == Frac(ee * fi[2], ne * fi[1])

Alpha(ee, ne, fi) ==
    IF ee * fi[2] >= ne * fi[1] THEN << 1, 1 >>
    ELSE Frac(ee * fi[2], ne * fi[1])

\* train, line 302
ShouldSaveOffByOne(ep, sf, total) == (ep + 1) % sf = 0 \/ ep = total

ShouldSave(ep, sf, total) == ep % sf = 0 \/ ep = total

\* optimize_D, line 154: for _ in range(self.n_critic)
CriticLoopOffByOne(k, nc) == k <= nc

CriticLoop(k, nc) == k < nc

\* ------------------------------------------------------------ ProGAN init
InitGAN ==
    /\ ctor_depth \in 2..MaxDepth
    /\ self_depth = SelfDepth(ctor_depth)
    /\ use_ema \in BOOLEAN
    /\ n_critic = 0
    /\ pc = "idle"
    /\ args = << >>
    /\ start_epoch = 0
    /\ start_depth = 0
    /\ stop_depth = 0
    /\ epoch = 0
    /\ total_epochs = 0
    /\ depth = 0
    /\ current_res = 0
    /\ total_batches = 0
    /\ e = 0
    /\ alpha = << 0, 1 >>
    /\ i = 0
    /\ critic = 0
    /\ batch_log = << >>
    /\ res_trace = << >>
    /\ epoch_log = << >>
    /\ saved = << >>
    /\ finals = 0

GANUnbuilt ==
    /\ ctor_depth = 0
    /\ self_depth = 0
    /\ use_ema = FALSE
    /\ n_critic = 0
    /\ pc = "none"
    /\ args = << >>
    /\ start_epoch = 0
    /\ start_depth = 0
    /\ stop_depth = 0
    /\ epoch = 0
    /\ total_epochs = 0
    /\ depth = 0
    /\ current_res = 0
    /\ total_batches = 0
    /\ e = 0
    /\ alpha = << 0, 1 >>
    /\ i = 0
    /\ critic = 0
    /\ batch_log = << >>
    /\ res_trace = << >>
    /\ epoch_log = << >>
    /\ saved = << >>
    /\ finals = 0

\* --------------------------------------------------------- ProGAN.train
\* lines 216-243: the prologue of train; latest is the value that
\* get_latest_network(start_epoch, max_epoch=total_epochs) returns on line 225
Train(ct, se, sd, ud, fi, sf, ne, nc, latest) ==
    /\ pc = "idle"
    /\ LET total == ne * self_depth
           ep    == IF ct THEN latest ELSE 1
           sdep  == IF ct THEN (IF sd # 1 THEN sd ELSE Ceil(ep, ne)) ELSE sd
           sep   == IF ct THEN ep - Floor(ep, ne) * ne ELSE 1
       IN /\ args' = [ continue_train |-> ct, start_epoch |-> se,
                       start_depth |-> sd, until_depth |-> ud, fade_in |-> fi,
                       save_freq |-> sf, num_epochs |-> ne, n_critic |-> nc,
                       latest |-> latest ]
          /\ n_critic' = nc
          /\ epoch' = ep
          /\ total_epochs' = total
          /\ start_depth' = sdep
          /\ start_epoch' = sep
          /\ depth' = sdep
          /\ stop_depth' = IF ud = None THEN self_depth ELSE ud[1]
    /\ pc' = "depth_head"
    /\ UNCHANGED << ctor_depth, self_depth, use_ema, current_res, total_batches,
                    e, alpha, i, critic, batch_log, res_trace, epoch_log,
                    saved, finals >>
    /\ UNCHANGED ms_vars

\* lines 244-252: next iteration of the depth loop
DepthNext ==
    /\ pc = "depth_head"
    /\ depth < stop_depth
    /\ current_res' = CurrentRes(depth)
    /\ res_trace' = Append(res_trace, CurrentRes(depth))
    /\ \E b \in 1..MaxBatches : total_batches' = b
    /\ e' = IF depth = start_depth THEN start_epoch ELSE 1
    /\ pc' = "epoch_head"
    /\ UNCHANGED << ctor_depth, self_depth, use_ema, n_critic, args, start_epoch,
                    start_depth, stop_depth, epoch, total_epochs, depth, alpha,
                    i, critic, batch_log, epoch_log, saved, finals >>
    /\ UNCHANGED ms_vars

\* lines 254-261: next iteration of the epoch loop
EpochNext ==
    /\ pc = "epoch_head"
    /\ e <= args.num_epochs
    /\ alpha' = Alpha(e, args.num_epochs, args.fade_in)
    /\ epoch_log' = Append(epoch_log,
                       [ depth |-> depth, e |-> e, epoch |-> epoch,
                         alpha |-> Alpha(e, args.num_epochs, args.fade_in) ])
    /\ i' = 0
    /\ pc' = "batch_head"
    /\ UNCHANGED << ctor_depth, self_depth, use_ema, n_critic, args, start_epoch,
                    start_depth, stop_depth, epoch, total_epochs, depth,
                    current_res, total_batches, e, critic, batch_log,
                    res_trace, saved, finals >>
    /\ UNCHANGED ms_vars

\* line 254 exhausted: back to the depth loop
EpochsDone ==
    /\ pc = "epoch_head"
    /\ e > args.num_epochs
    /\ depth' = depth + 1
    /\ pc' = "depth_head"
    /\ UNCHANGED << ctor_depth, self_depth, use_ema, n_critic, args, start_epoch,
                    start_depth, stop_depth, epoch, total_epochs, current_res,
                    total_batches, e, alpha, i, critic, batch_log, res_trace,
                    epoch_log, saved, finals >>
    /\ UNCHANGED ms_vars

\* lines 262-264 and optimize_D 136-153: take the next batch
BatchNext ==
    /\ pc = "batch_head"
    /\ i < total_batches
    /\ i' = i + 1
    /\ critic' = 0
    /\ batch_log' = << >>
    /\ pc' = "D_loop"
    /\ UNCHANGED << ctor_depth, self_depth, use_ema, n_critic, args, start_epoch,
                    start_depth, stop_depth, epoch, total_epochs, depth,
                    current_res, total_batches, e, alpha, res_trace, epoch_log,
                    saved, finals >>
    /\ UNCHANGED ms_vars

\* optimize_D, lines 154-161: D_optim.zero_grad and the loss
DZeroGrad ==
    /\ pc = "D_loop"
    /\ CriticLoop(critic, n_critic)
    /\ batch_log' = Append(batch_log, "D_zero_grad")
    /\ pc' = "D_step"
    /\ UNCHANGED << ctor_depth, self_depth, use_ema, n_critic, args, start_epoch,
                    start_depth, stop_depth, epoch, total_epochs, depth,
                    current_res, total_batches, e, alpha, i, critic, res_trace,
                    epoch_log, saved, finals >>
    /\ UNCHANGED ms_vars

\* optimize_D, lines 163-168: D_optim.step
DStep ==
    /\ pc = "D_step"
    /\ batch_log' = Append(batch_log, "D_step")
    /\ critic' = critic + 1
    /\ pc' = "D_loop"
    /\ UNCHANGED << ctor_depth, self_depth, use_ema, n_critic, args, start_epoch,
                    start_depth, stop_depth, epoch, total_epochs, depth,
                    current_res, total_batches, e, alpha, i, res_trace,
                    epoch_log, saved, finals >>
    /\ UNCHANGED ms_vars

\* optimize_D line 170, optimize_G lines 174-183: G_optim.zero_grad and loss
GZeroGrad ==
    /\ pc = "D_loop"
    /\ ~ CriticLoop(critic, n_critic)
    /\ batch_log' = Append(batch_log, "G_zero_grad")
    /\ pc' = "G_step"
    /\ UNCHANGED << ctor_depth, self_depth, use_ema, n_critic, args, start_epoch,
                    start_depth, stop_depth, epoch, total_epochs, depth,
                    current_res, total_batches, e, alpha, i, critic, res_trace,
                    epoch_log, saved, finals >>
    /\ UNCHANGED ms_vars

\* optimize_G, lines 185-188: G_optim.step, then the use_ema test
GStep ==
    /\ pc = "G_step"
    /\ batch_log' = Append(batch_log, "G_step")
    /\ pc' = IF use_ema THEN "G_ema" ELSE "batch_head"
    /\ UNCHANGED << ctor_depth, self_depth, use_ema, n_critic, args, start_epoch,
                    start_depth, stop_depth, epoch, total_epochs, depth,
                    current_res, total_batches, e, alpha, i, critic, res_trace,
                    epoch_log, saved, finals >>
    /\ UNCHANGED ms_vars

\* optimize_G, line 189: update_average(G_shadow, G, ema_decay)
UpdateAverage ==
    /\ pc = "G_ema"
    /\ batch_log' = Append(batch_log, "update_average")
    /\ pc' = "batch_head"
    /\ UNCHANGED << ctor_depth, self_depth, use_ema, n_critic, args, start_epoch,
                    start_depth, stop_depth, epoch, total_epochs, depth,
                    current_res, total_batches, e, alpha, i, critic, res_trace,
                    epoch_log, saved, finals >>
    /\ UNCHANGED ms_vars

\* lines 286-305: end of an epoch: checkpoint, then epoch += 1
EpochEnd ==
    /\ pc = "batch_head"
    /\ i >= total_batches
    /\ saved' = IF ShouldSave(epoch, args.save_freq, total_epochs)
                THEN Append(saved, [ epoch |-> epoch, pending |-> total_batches - i ])
                ELSE saved
    /\ epoch' = epoch + 1
    /\ e' = e + 1
    /\ pc' = "epoch_head"
    /\ UNCHANGED << ctor_depth, self_depth, use_ema, n_critic, args, start_epoch,
                    start_depth, stop_depth, total_epochs, depth, current_res,
                    total_batches, alpha, i, critic, batch_log, res_trace,
                    epoch_log, finals >>
    /\ UNCHANGED ms_vars

\* lines 307-308: the depth loop is exhausted: save_networks("final")
Finish ==
    /\ pc = "depth_head"
    /\ depth >= stop_depth
    /\ finals' = finals + 1
    /\ pc' = "done"
    /\ UNCHANGED << ctor_depth, self_depth, use_ema, n_critic, args, start_epoch,
                    start_depth, stop_depth, epoch, total_epochs, depth,
                    current_res, total_batches, e, alpha, i, critic, batch_log,
                    res_trace, epoch_log, saved >>
    /\ UNCHANGED ms_vars

\* ------------------------------------------------- callers of ProGAN.train
\* train(...) with continue_train=False, start_depth=1, until_depth=None
TrainFresh ==
    \E ne \in 1..MaxEpochs : \E se \in 1..ne : \E fi \in FadeIns :
        Train(FALSE, se, 1, None, fi, 25, ne, 1, 0)

\* train(continue_train=True) with start_depth left at its default
TrainContinue ==
    \E ne \in 1..MaxEpochs : \E latest \in 1..(ne * self_depth) :
        Train(TRUE, 1, 1, None, << 1, 2 >>, 25, ne, 1, latest)

\* train(start_depth=s, start_epoch=k) without continue_train
TrainFrom ==
    \E ne \in 1..MaxEpochs : \E sd \in 1..self_depth : \E se \in 1..ne :
        Train(FALSE, se, sd, None, << 1, 2 >>, 25, ne, 1, 0)

\* a call of train with any save_freq, fresh or continued, from any depth
TrainAny ==
    \E ct \in BOOLEAN : \E ne \in 1..MaxEpochs : \E sd \in 1..self_depth :
    \E sf \in 1..MaxSaveFreq :
    \E latest \in (IF ct THEN 1..(ne * self_depth) ELSE { 0 }) :
        Train(ct, 1, sd, None, << 1, 2 >>, sf, ne, 1, latest)

\* train(n_critic=nc) from the start
TrainCritic ==
    \E ne \in 1..MaxEpochs : \E nc \in 1..MaxCritic :
        Train(FALSE, 1, 1, None, << 1, 2 >>, 25, ne, nc, 0)

\* --------------------------------------------------------- MultiscaleStyle
MaxSteps == 3
MaxRatio == 2
MaxLoopVal == 1
MaxEvals == 2

StartSizes == { 2, 4 }

\* an image value: the operations that produced it
Op(name, arg) == [ op |-> name, arg |-> arg ]

\* run, lines 46-50: the original initialisation
OriginalInit(cfg) ==
    IF cfg.has_init THEN << Op("init_image", cfg.start_size) >>
    ELSE << Op("rand", cfg.image_size) >>

\* run, line 52: (image_size / start_size) ** (1 / (steps - 1))
ScaleFactor(cfg) ==
    CHOOSE r \in 1..cfg.image_size :
        Pow(r, cfg.steps - 1) * cfg.start_size = cfg.image_size

\* run, lines 54-56
CurrentSize(cfg, sc) == cfg.image_size \div Pow(ScaleFactor(cfg), cfg.steps - 1 - sc)

\* a fresh tensor object holding value v
Alloc(h, v) == [ heap |-> h @@ ((Cardinality(DOMAIN h) + 1) :> v),
                 ref |-> Cardinality(DOMAIN h) + 1 ]

\* run, line 61: nn.functional.interpolate(x, size) returns a new tensor
Interpolate(h, r, size) == Alloc(h, Append(h[r], Op("interpolate", size)))

\* run, lines 62 and 114: match_color(x, styles[0]).type(dtype), a new tensor
MatchColor(h, r, size) == Alloc(h, Append(h[r], Op("match_color", size)))

\* run, line 88: Tensor.requires_grad_() works in place and returns self
RequiresGradCopy(h, r) == Alloc(h, h[r])

RequiresGrad(h, r) == [ heap |-> h, ref |-> r ]

\* maybe_save, lines 24-25
MaybeSave(cfg, n, size) ==
    \/ cfg.save_iter > 0 /\ n % cfg.save_iter = 0
    \/ n = cfg.num_iterations /\ size = cfg.image_size

InitMS ==
    /\ \E ss \in StartSizes, r \in 2..MaxRatio, st \in 2..MaxSteps,
          hi \in BOOLEAN, si \in 0..1 :
          ms_cfg = [ start_size |-> ss, steps |-> st,
                     image_size |-> ss * Pow(r, st - 1), has_init |-> hi,
                     save_iter |-> si, num_iterations |-> 2 ]
    /\ ms_pc = "idle"
    /\ heap = << >>
    /\ init = 0
    /\ img = 0
    /\ init_image = 0
    /\ scale = 0
    /\ current_size = 0
    /\ num_calls = 0
    /\ loopVal = 0
    /\ files = { }
    /\ start_imgs = << >>
    /\ end_imgs = << >>

MSUnbuilt ==
    /\ ms_cfg = << >>
    /\ ms_pc = "none"
    /\ heap = << >>
    /\ init = 0
    /\ img = 0
    /\ init_image = 0
    /\ scale = 0
    /\ current_size = 0
    /\ num_calls = 0
    /\ loopVal = 0
    /\ files = { }
    /\ start_imgs = << >>
    /\ end_imgs = << >>

\* run, lines 39-52
Run ==
    /\ ms_pc = "idle"
    /\ heap' = Alloc(heap, OriginalInit(ms_cfg)).heap
    /\ init' = Alloc(heap, OriginalInit(ms_cfg)).ref
    /\ scale' = 0
    /\ ms_pc' = "scale_head"
    /\ UNCHANGED << ms_cfg, img, init_image, current_size, num_calls, loopVal,
                    files, start_imgs, end_imgs >>
    /\ UNCHANGED gan_vars

\* run, lines 53-110: set up one scale
ScaleNext ==
    /\ ms_pc = "scale_head"
    /\ scale < ms_cfg.steps
    /\ LET size == CurrentSize(ms_cfg, scale)
           a == Interpolate(heap, init, size)
           b == MatchColor(a.heap, a.ref, size)
           c == RequiresGrad(b.heap, b.ref)
       IN /\ current_size' = size
          /\ heap' = c.heap
          /\ init' = b.ref
          /\ img' = c.ref
          /\ start_imgs' = Append(start_imgs, c.heap[c.ref])
    /\ num_calls' = 0
    /\ \E lv \in 0..MaxLoopVal : loopVal' = lv
    /\ ms_pc' = "optimize"
    /\ UNCHANGED << ms_cfg, init_image, scale, files, end_imgs >>
    /\ UNCHANGED gan_vars

\* run, lines 111-112 with feval, lines 91-108: one optimizer.step(feval);
\* the optimizer calls feval c >= 1 times and updates img in place
OptimizerStep ==
    /\ ms_pc = "optimize"
    /\ num_calls <= loopVal
    /\ \E c \in 1..MaxEvals :
          /\ num_calls' = num_calls + c
          /\ files' = IF \E n \in (num_calls + 1)..(num_calls + c) :
                            MaybeSave(ms_cfg, n, current_size)
                      THEN files \cup { current_size } ELSE files
    /\ heap' = [ heap EXCEPT ![img] = Append(@, Op("optimize", scale)) ]
    /\ UNCHANGED << ms_cfg, ms_pc, init, img, init_image, scale, current_size,
                    loopVal, start_imgs, end_imgs >>
    /\ UNCHANGED gan_vars

\* run, line 114: the while loop is over
ScaleEnd ==
    /\ ms_pc = "optimize"
    /\ num_calls > loopVal
    /\ heap' = MatchColor(heap, img, current_size).heap
    /\ init_image' = MatchColor(heap, img, current_size).ref
    /\ end_imgs' = Append(end_imgs, heap[img])
    /\ scale' = scale + 1
    /\ ms_pc' = "scale_head"
    /\ UNCHANGED << ms_cfg, init, img, current_size, num_calls, loopVal, files,
                    start_imgs >>
    /\ UNCHANGED gan_vars

\* run, lines 116-120
Return ==
    /\ ms_pc = "scale_head"
    /\ scale >= ms_cfg.steps
    /\ ms_pc' = "done"
    /\ UNCHANGED << ms_cfg, heap, init, img, init_image, scale, current_size,
                    num_calls, loopVal, files, start_imgs, end_imgs >>
    /\ UNCHANGED gan_vars

\* --------------------------------------------------------- specifications
Init == InitGAN /\ MSUnbuilt

Next ==
    \/ TrainAny
    \/ DepthNext \/ EpochNext \/ EpochsDone \/ BatchNext \/ DZeroGrad \/ DStep
    \/ GZeroGrad \/ GStep \/ UpdateAverage \/ EpochEnd \/ Finish

Spec == Init /\ [][Next]_vars

NextFresh ==
    \/ TrainFresh
    \/ DepthNext \/ EpochNext \/ EpochsDone \/ BatchNext \/ DZeroGrad \/ DStep
    \/ GZeroGrad \/ GStep \/ UpdateAverage \/ EpochEnd \/ Finish

SpecFresh == Init /\ [][NextFresh]_vars

NextContinue ==
    \/ TrainContinue
    \/ DepthNext \/ EpochNext \/ EpochsDone \/ BatchNext \/ DZeroGrad \/ DStep
    \/ GZeroGrad \/ GStep \/ UpdateAverage \/ EpochEnd \/ Finish

SpecContinue == Init /\ [][NextContinue]_vars

NextFrom ==
    \/ TrainFrom
    \/ DepthNext \/ EpochNext \/ EpochsDone \/ BatchNext \/ DZeroGrad \/ DStep
    \/ GZeroGrad \/ GStep \/ UpdateAverage \/ EpochEnd \/ Finish

SpecFrom == Init /\ [][NextFrom]_vars

NextCritic ==
    \/ TrainCritic
    \/ DepthNext \/ EpochNext \/ EpochsDone \/ BatchNext \/ DZeroGrad \/ DStep
    \/ GZeroGrad \/ GStep \/ UpdateAverage \/ EpochEnd \/ Finish

SpecCritic == Init /\ [][NextCritic]_vars

InitStyle == GANUnbuilt /\ InitMS

NextStyle == Run \/ ScaleNext \/ OptimizerStep \/ ScaleEnd \/ Return

SpecStyle == InitStyle /\ [][NextStyle]_vars

\* ----------------------------------------------------------------- claims
\* the call is inside an epoch: optimize_D / optimize_G run with (depth, alpha)
InEpoch == pc \in { "batch_head", "D_loop", "D_step", "G_step", "G_ema" }

Started == pc \notin { "none", "idle" }

\* the epochs that ran to their end
Completed == IF InEpoch THEN SubSeq(epoch_log, 1, Len(epoch_log) - 1) ELSE epoch_log

\* number of epochs started at depth dp
EpochsAt(dp) == Cardinality({ j \in DOMAIN epoch_log : epoch_log[j].depth = dp })

\* C1: in a fresh call on a model built with depth d >= 3 the resolutions
\* trained start at 8, each is the double of the one before (so they strictly
\* increase and none is revisited), the last one is 2^d, and the depth passed
\* to optimize_D / optimize_G never decreases from one epoch to the next.
C1_ResolutionsDouble ==
    (Started /\ ctor_depth >= 3) =>
        /\ \A j \in DOMAIN res_trace : res_trace[j] = 8 * Pow(2, j - 1)
        /\ \A j \in DOMAIN res_trace : j > 1 => res_trace[j] = 2 * res_trace[j - 1]
        /\ pc = "done" => /\ Len(res_trace) >= 1
                          /\ res_trace[Len(res_trace)] = Pow(2, ctor_depth)
        /\ InEpoch => /\ depth = Len(res_trace)
                      /\ current_res = res_trace[Len(res_trace)]
                      /\ epoch_log[Len(epoch_log)].depth = depth
        /\ \A j \in DOMAIN epoch_log :
              j > 1 => epoch_log[j - 1].depth <= epoch_log[j].depth

C1_Witness ==
    /\ pc = "done"
    /\ ctor_depth >= 4
    /\ Len(res_trace) >= 2
    /\ Len(epoch_log) >= 4

\* C2: resuming with continue_train=True and the default start_depth, every
\* epoch executed has 1 <= e <= num_epochs and the global epoch counter
\* equals (depth - 1) * num_epochs + e, whatever the checkpoint epoch E.
C2_ResumePosition ==
    (InEpoch /\ args.continue_train /\ args.start_depth = 1) =>
        /\ 1 <= e
        /\ e <= args.num_epochs
        /\ epoch = (depth - 1) * args.num_epochs + e

\* C3: train(start_depth=s, start_epoch=k) without continue_train starts at
\* within-depth epoch k of depth s: the first depth runs num_epochs - k + 1
\* epochs and every later depth runs num_epochs epochs.
C3_StartsAtGivenEpoch ==
    (Started /\ ~ args.continue_train) =>
        /\ Len(epoch_log) >= 1 =>
              /\ epoch_log[1].depth = args.start_depth
              /\ epoch_log[1].e = args.start_epoch
        /\ pc = "done" =>
              \A dp \in args.start_depth..(stop_depth - 1) :
                  EpochsAt(dp) = IF dp = args.start_depth
                                 THEN args.num_epochs - args.start_epoch + 1
                                 ELSE args.num_epochs

\* C4: save_networks(epoch) is called at the end of an epoch exactly when the
\* global epoch number is a multiple of save_freq or equals
\* num_epochs * self.depth; the save comes after all batches of the epoch and
\* before the counter is incremented; saved epoch numbers strictly increase;
\* save_networks("final") is called once, after the last epoch.
C4_CheckpointSchedule ==
    Started =>
        /\ \A j \in DOMAIN Completed :
              (\E k \in DOMAIN saved : saved[k].epoch = Completed[j].epoch)
              <=> \/ Completed[j].epoch % args.save_freq = 0
                  \/ Completed[j].epoch = args.num_epochs * self_depth
        /\ \A k \in DOMAIN saved :
              /\ saved[k].pending = 0
              /\ saved[k].epoch < epoch
              /\ \E j \in DOMAIN Completed : Completed[j].epoch = saved[k].epoch
        /\ \A k \in DOMAIN saved : k > 1 => saved[k - 1].epoch < saved[k].epoch
        /\ finals = IF pc = "done" THEN 1 ELSE 0
        /\ pc = "done" => Completed = epoch_log

C4_Witness ==
    /\ pc = "done"
    /\ finals = 1
    /\ Len(saved) >= 2
    /\ Len(saved) < Len(epoch_log)
    /\ \E k \in DOMAIN saved :
          /\ saved[k].epoch % args.save_freq # 0
          /\ saved[k].epoch = total_epochs

\* the optimizer events of one whole batch
RECURSIVE CriticEvents(_)
CriticEvents(n) ==
    IF n <= 0 THEN << >> ELSE << "D_zero_grad", "D_step" >> \o CriticEvents(n - 1)

BatchEvents(nc, ema) ==
    CriticEvents(nc) \o << "G_zero_grad", "G_step" >>
        \o (IF ema THEN << "update_average" >> ELSE << >>)

IsPrefix(a, b) == Len(a) <= Len(b) /\ a = SubSeq(b, 1, Len(a))

\* C6: in every batch the discriminator optimizer steps exactly n_critic
\* times, each step after a zero_grad, all before the one generator step;
\* with use_ema the shadow generator is updated once, after the generator
\* step and before the next batch; without use_ema it is never updated.
C6_BatchOrder ==
    Started =>
        /\ IsPrefix(batch_log, BatchEvents(args.n_critic, use_ema))
        /\ (pc = "batch_head" /\ i >= 1) =>
              batch_log = BatchEvents(args.n_critic, use_ema)
        /\ pc = "G_step" =>
              batch_log = CriticEvents(args.n_critic) \o << "G_zero_grad" >>
        /\ ~ use_ema => \A j \in DOMAIN batch_log : batch_log[j] # "update_average"

C6_Witness ==
    /\ pc = "batch_head"
    /\ i = 2
    /\ use_ema
    /\ args.n_critic = 2
    /\ Len(batch_log) = 7

\* comparison of fractions with positive denominators
FracLeq(a, b) == a[1] * b[2] <= b[1] * a[2]

\* C5: in a fresh run with 0 < fade_in <= 1, alpha in within-depth epoch e
\* satisfies 0 < alpha <= 1, equals e / (num_epochs * fade_in) while
\* e < num_epochs * fade_in and 1 from then on, does not decrease within a
\* depth, and restarts from its smallest value at the first epoch of a depth.
C5_FadeIn ==
    Started =>
        \A j \in DOMAIN epoch_log :
            LET r  == epoch_log[j]
                fi == args.fade_in
                ne == args.num_epochs
            IN /\ r.alpha[1] > 0 /\ r.alpha[2] > 0
               /\ r.alpha[1] <= r.alpha[2]
               /\ r.e * fi[2] < ne * fi[1] =>
                      r.alpha[1] * (ne * fi[1]) = r.alpha[2] * (r.e * fi[2])
               /\ r.e * fi[2] >= ne * fi[1] => r.alpha[1] = r.alpha[2]
               /\ (j > 1 /\ epoch_log[j - 1].depth = r.depth) =>
                      FracLeq(epoch_log[j - 1].alpha, r.alpha)
               /\ (j = 1 \/ epoch_log[j - 1].depth # r.depth) =>
                      /\ r.e = 1
                      /\ \A k \in DOMAIN epoch_log : FracLeq(r.alpha, epoch_log[k].alpha)
               /\ (j = Len(epoch_log) /\ InEpoch) => alpha = r.alpha

C5_Witness ==
    /\ InEpoch
    /\ Len(res_trace) = 2
    /\ e = 1
    /\ alpha[1] < alpha[2]
    /\ \E j \in DOMAIN epoch_log :
          epoch_log[j].depth = 1 /\ epoch_log[j].alpha = << 1, 1 >>
    /\ \E j \in DOMAIN epoch_log :
          epoch_log[j].depth = 1 /\ epoch_log[j].alpha[1] < epoch_log[j].alpha[2]

\* C7: for every scale k >= 1 the image the optimizer starts from is the
\* image the optimizer ended with at scale k - 1, resized and colour matched,
\* and only scale 0 starts from the original initialisation.
C7_CoarseToFine ==
    \A k \in DOMAIN start_imgs :
        LET s == start_imgs[k]
            n == Len(s)
        IN /\ n >= 3
           /\ s[n - 1].op = "interpolate"
           /\ s[n].op = "match_color"
           /\ IF k = 1
              THEN SubSeq(s, 1, n - 2) = OriginalInit(ms_cfg)
              ELSE /\ k - 1 \in DOMAIN end_imgs
                   /\ SubSeq(s, 1, n - 2) = end_imgs[k - 1]
                   /\ s[n - 2] = Op("optimize", k - 2)
                   /\ SubSeq(s, 1, n - 2) # OriginalInit(ms_cfg)

C7_Witness ==
    /\ ms_pc = "optimize"
    /\ scale = 2
    /\ num_calls = 0
    /\ Len(start_imgs) = 3
    /\ Len(end_imgs) = 2
====
